---- MODULE Spec2Model ----
(***************************************************************************)
(* A model of the 16-bit virtual machine of src/src/cpu.rs and             *)
(* src/src/memory.rs: the byte memory, the register file, the              *)
(* fetch-decode-execute cycle and the call/return protocol.                *)
(*                                                                         *)
(* Representation.                                                         *)
(*  - A Memory (memory.rs, Vec<u8>) is a record [len, inner]: len is the   *)
(*    length of the vector and inner maps the offsets that hold a non-zero *)
(*    byte to that byte; every other offset below len holds 0, the value   *)
(*    Memory::new fills the vector with.                                   *)
(*  - A Cpu is a record of its fields memory, register, stack_frame_size,  *)
(*    with three more fields for the control flow of a method body:        *)
(*    panicked (a panic! or a failed slice index / arithmetic check has    *)
(*    unwound the call), fault (which of these it was) and val (the value  *)
(*    the last method returned).                                           *)
(*    Every method leaves a panicked Cpu as it is, so the fields show the  *)
(*    state at the moment of the panic.                                    *)
(*  - u16 "+" and "-" and usize "-=" panic when the build checks           *)
(*    arithmetic overflow (the dev and test profiles) and wrap when it     *)
(*    does not (the release profile); overflow_checks is that choice.      *)
(*  - stack_frame_size is a usize; it is held as the integer congruent to  *)
(*    it modulo 2^64 of least magnitude, so a wrapped 0 - 2 is -2.         *)
(*                                                                         *)
(* Specifications.                                                         *)
(*  - Spec: Cpu::new on the memory image of a program, then Cpu::step_n.   *)
(*  - StackSpec: Cpu::push and Cpu::pop called directly, as                *)
(*    tests::test_push_and_pop of cpu.rs does.                             *)
(*  - MemorySpec: the methods of Memory called directly, as the tests of   *)
(*    memory.rs do.                                                        *)
(***************************************************************************)
EXTENDS Integers, Sequences, FiniteSets, TLC

VARIABLES
    memory,            \* Cpu.memory
    register,          \* Cpu.register
    stack_frame_size,  \* Cpu.stack_frame_size
    panicked,          \* the process has aborted with a panic
    fault,             \* which check the panic came from
    overflow_checks,   \* the build profile checks integer overflow
    instruction,       \* Cpu::step: the instruction decoded by the last step
    n,                 \* Cpu::step_n: the number of steps the driver asks for
    steps,             \* Cpu::step_n: the number of steps made so far
    frames,            \* history: the caller's state at each call still open
    returned,          \* history: what the last Ret matched, the number of Ret
                       \* so far and whether every call came before every Ret
    before,            \* history: the Cpu before the last step
    call               \* history: the arguments and the result of the method a
                       \* test called last, and the call it made before that

vars == <<memory, register, stack_frame_size, panicked, fault, overflow_checks,
          instruction, n, steps, frames, returned, before, call>>

----------------------------------------------------------------------------
(* Bounds of the model. *)

\* Cpu::step_n(n): the largest number of steps the driver asks for.
MaxSteps == 64
\* Size in bytes of the small main memories (the tests use 32 and 256).
SmallMem == 512
\* Largest number of argument words a caller pushes before a call.
MaxArgs == 2
\* Deepest nesting of calls.
MaxDepth == 3
\* Largest target of the counting loop.
MaxTarget == 5
\* Largest number of calls a routine makes one after the other.
MaxCalls == 2
\* Largest number of words a subroutine leaves on its stack at its Ret.
MaxLeft == 1
\* Distance in bytes between the subroutines of the call programs.
SubSpacing == 48
\* Largest number of methods a unit test calls one after the other.
MaxOps == 2
\* the largest of the small memories a Cpu is constructed over
TinyMem == 6
\* the most words a callee leaves on its stack in a second execution
MaxExtra == 2

----------------------------------------------------------------------------
(* 16-bit words. *)

U16 == 65536

Hi(v) == v \div 256
Lo(v) == v % 256

\* u16::from_le_bytes, in the place of from_be_bytes
from_le_bytes(b0, b1) == b1 * 256 + b0

\* u16::from_be_bytes
from_be_bytes(b0, b1) == b0 * 256 + b1

----------------------------------------------------------------------------
(* memory.rs *)

\* Memory::new
Memory_new(size_in_bytes) == [len |-> size_in_bytes, inner |-> <<>>]

\* slice[offset] of a Memory, for offset < len
At(m, offset) == IF offset \in DOMAIN m.inner THEN m.inner[offset] ELSE 0

\* slice[offset] = value
Store(m, offset, value) ==
    IF value # 0
    THEN [m EXCEPT !.inner = (offset :> value) @@ m.inner]
    ELSE IF offset \in DOMAIN m.inner
    THEN [m EXCEPT !.inner = [x \in DOMAIN m.inner \ {offset} |-> m.inner[x]]]
    ELSE m

\* Memory::byte_length
byte_length(m) == m.len

\* Memory::set_byte; ok = FALSE is the panic
set_byte(m, offset, value) ==
    IF offset >= m.len
    THEN [ok |-> FALSE, mem |-> m]
    ELSE [ok |-> TRUE, mem |-> Store(m, offset, value)]

\* Memory::get_byte; the slice index panics when offset is not below len
get_byte(m, offset) ==
    IF offset < m.len
    THEN [ok |-> TRUE, val |-> At(m, offset)]
    ELSE [ok |-> FALSE, val |-> 0]

\* set_word with the bound of set_byte: at the last offset the high byte is
\* written before the index of the low byte panics
set_word_late(m, offset, value) ==
    IF offset >= m.len
    THEN [ok |-> FALSE, mem |-> m]
    ELSE IF offset + 1 >= m.len
    THEN [ok |-> FALSE, mem |-> Store(m, offset, Hi(value))]
    ELSE [ok |-> TRUE, mem |-> Store(Store(m, offset, Hi(value)), offset + 1, Lo(value))]

\* Memory::set_word; with len = 0 either `buffer_len - 1` panics or the first
\* slice index does
set_word(m, offset, value) ==
    IF offset >= m.len - 1
    THEN [ok |-> FALSE, mem |-> m]
    ELSE [ok |-> TRUE, mem |-> Store(Store(m, offset, Hi(value)), offset + 1, Lo(value))]

\* Memory::get_word; either slice index panics when it is not below len
get_word(m, offset) ==
    IF offset < m.len /\ offset + 1 < m.len
    THEN [ok |-> TRUE, val |-> from_be_bytes(At(m, offset), At(m, offset + 1))]
    ELSE [ok |-> FALSE, val |-> 0]

----------------------------------------------------------------------------
(* cpu.rs: enum Register, as the integer `name as usize` *)

InstructionPointer == 0
Accumulator == 1
Register1 == 2
Register2 == 3
Register3 == 4
Register4 == 5
Register5 == 6
Register6 == 7
Register7 == 8
Register8 == 9
StackPointer == 10
FramePointer == 11
None == 12

\* Cpu.register_names
register_names ==
    <<InstructionPointer, Accumulator, Register1, Register2, Register3, Register4,
      Register5, Register6, Register7, Register8, StackPointer, FramePointer>>

\* impl From<u8> for Register
Register_from(value) == IF value \in 0..11 THEN value ELSE None

\* Instruction_from with a thirteenth opcode: the gap 0x16 decoded as PushLit
Instruction_from_gap(value) ==
    CASE value = 16 -> "MovLitReg"
      [] value = 17 -> "MovRegReg"
      [] value = 18 -> "MovRegMem"
      [] value = 19 -> "MovMemReg"
      [] value = 20 -> "AddRegReg"
      [] value = 21 -> "JmpNotEq"
      [] value = 22 -> "PushLit"
      [] value = 23 -> "PushLit"
      [] value = 24 -> "PushReg"
      [] value = 26 -> "Pop"
      [] value = 94 -> "CalLit"
      [] value = 95 -> "CalReg"
      [] value = 96 -> "Ret"
      [] OTHER -> "Noop"

\* impl From<u8> for Instruction
Instruction_from(value) ==
    CASE value = 16 -> "MovLitReg"
      [] value = 17 -> "MovRegReg"
      [] value = 18 -> "MovRegMem"
      [] value = 19 -> "MovMemReg"
      [] value = 20 -> "AddRegReg"
      [] value = 21 -> "JmpNotEq"
      [] value = 23 -> "PushLit"
      [] value = 24 -> "PushReg"
      [] value = 26 -> "Pop"
      [] value = 94 -> "CalLit"
      [] value = 95 -> "CalReg"
      [] value = 96 -> "Ret"
      [] OTHER -> "Noop"

\* enum Instruction: `instruction as u8`
Opcode(name) ==
    CASE name = "Noop" -> 0
      [] name = "MovLitReg" -> 16
      [] name = "MovRegReg" -> 17
      [] name = "MovRegMem" -> 18
      [] name = "MovMemReg" -> 19
      [] name = "AddRegReg" -> 20
      [] name = "JmpNotEq" -> 21
      [] name = "PushLit" -> 23
      [] name = "PushReg" -> 24
      [] name = "Pop" -> 26
      [] name = "CalLit" -> 94
      [] name = "CalReg" -> 95
      [] name = "Ret" -> 96

----------------------------------------------------------------------------
(* cpu.rs: control flow of a method body *)

\* a panic unwinds: the Cpu stays as it is at that moment, with what the
\* method wrote before it; fault tells which
\* check failed: "register" an index into the register file, "memory" an index
\* into main memory, "overflow" an arithmetic overflow check
Panic(c, why) == [c EXCEPT !.panicked = TRUE, !.fault = why]

\* `return v`
Return(c, v) == [c EXCEPT !.val = v]

\* u16 `a + b`
add_u16(c, a, b) ==
    IF c.panicked THEN c
    ELSE IF a + b < U16 THEN Return(c, a + b)
    ELSE IF overflow_checks THEN Panic(c, "overflow")
    ELSE Return(c, (a + b) % U16)

\* u16 `a - b`
sub_u16(c, a, b) ==
    IF c.panicked THEN c
    ELSE IF a - b >= 0 THEN Return(c, a - b)
    ELSE IF overflow_checks THEN Panic(c, "overflow")
    ELSE Return(c, (a - b) % U16)

\* usize `self.stack_frame_size += by`; the counter is held modulo 2^64, so the
\* sum overflows exactly when it passes from below 0 to 0 or above
add_frame_size(c, by) ==
    IF c.panicked THEN c
    ELSE IF c.stack_frame_size < 0 /\ c.stack_frame_size + by >= 0 /\ overflow_checks
    THEN Panic(c, "overflow")
    ELSE [c EXCEPT !.stack_frame_size = @ + by]

\* usize `self.stack_frame_size -= by`; it overflows exactly when the counter
\* passes from 0 or above to below 0
sub_frame_size(c, by) ==
    IF c.panicked THEN c
    ELSE IF c.stack_frame_size >= 0 /\ c.stack_frame_size - by < 0 /\ overflow_checks
    THEN Panic(c, "overflow")
    ELSE [c EXCEPT !.stack_frame_size = @ - by]

\* memory.set_byte(address, value), on the Memory of c
memory_set_byte(c, address, value) ==
    IF c.panicked THEN c
    ELSE LET r == set_byte(c.memory, address, value)
         IN  IF r.ok THEN [c EXCEPT !.memory = r.mem]
             ELSE Panic([c EXCEPT !.memory = r.mem], "memory")

\* self.memory.get_byte(address)
memory_get_byte(c, address) ==
    IF c.panicked THEN c
    ELSE LET r == get_byte(c.memory, address)
         IN  IF r.ok THEN Return(c, r.val) ELSE Panic(c, "memory")

\* self.memory.get_word(address)
memory_get_word(c, address) ==
    IF c.panicked THEN c
    ELSE LET r == get_word(c.memory, address)
         IN  IF r.ok THEN Return(c, r.val) ELSE Panic(c, "memory")

\* memory.set_word with the address wrapped into the buffer instead of the panic
memory_set_word_wrapped(c, address, value) ==
    IF c.panicked THEN c
    ELSE LET r == set_word(c.memory, address % (byte_length(c.memory) - 1), value)
         IN  [c EXCEPT !.memory = r.mem]

\* self.memory.set_word(address, value)
memory_set_word(c, address, value) ==
    IF c.panicked THEN c
    ELSE LET r == set_word(c.memory, address, value)
         IN  IF r.ok THEN [c EXCEPT !.memory = r.mem]
             ELSE Panic([c EXCEPT !.memory = r.mem], "memory")

----------------------------------------------------------------------------
(* cpu.rs: impl Cpu *)

\* Cpu::register_map
register_map(name) == name * 2

\* Cpu::get_register_at
get_register_at(c, index) ==
    IF c.panicked THEN c
    ELSE LET r == get_word(c.register, index)
         IN  IF r.ok THEN Return(c, r.val) ELSE Panic(c, "register")

\* Cpu::get_register
get_register(c, name) == get_register_at(c, register_map(name))

\* Cpu::set_register_at
set_register_at(c, index, value) ==
    IF c.panicked THEN c
    ELSE LET r == set_word(c.register, index, value)
         IN  IF r.ok THEN [c EXCEPT !.register = r.mem]
             ELSE Panic([c EXCEPT !.register = r.mem], "register")

\* Cpu::set_register
set_register(c, name, value) == set_register_at(c, register_map(name), value)

(* In the method bodies below Then(c, F) is `c; F`: the statements F run on
   the Cpu c that the statements before them left, unless those panicked. *)
Then(c, F(_)) == IF c.panicked THEN c ELSE F(c)

\* Cpu::fetch
fetch(c) ==
    Then(get_register(c, InstructionPointer), LAMBDA c1 :
    LET next_instruction_addr == c1.val IN
    Then(add_u16(c1, next_instruction_addr, 1), LAMBDA c2 :
    Then(set_register(c2, InstructionPointer, c2.val), LAMBDA c3 :
    memory_get_byte(c3, next_instruction_addr))))

\* Cpu::fetch16
fetch16(c) ==
    Then(get_register(c, InstructionPointer), LAMBDA c1 :
    LET next_instruction_addr == c1.val IN
    Then(add_u16(c1, next_instruction_addr, 2), LAMBDA c2 :
    Then(set_register(c2, InstructionPointer, c2.val), LAMBDA c3 :
    memory_get_word(c3, next_instruction_addr))))

\* fetch_register_index handing on the operand byte as it is
fetch_register_index_raw(c) ==
    Then(fetch(c), LAMBDA c1 :
    LET address == c1.val IN
    Return(c1, address))

\* Cpu::fetch_register_index
fetch_register_index(c) ==
    Then(fetch(c), LAMBDA c1 :
    LET address == c1.val IN
    Return(c1, address % Len(register_names)))

\* pop reading the word at the StackPointer it finds, before moving it
pop_stale(c) ==
    Then(get_register(c, StackPointer), LAMBDA c1 :
    LET stack_pointer == c1.val IN
    Then(add_u16(c1, stack_pointer, 2), LAMBDA c2 :
    Then(set_register(c2, StackPointer, c2.val), LAMBDA c3 :
    Then(sub_frame_size(c3, 2), LAMBDA c4 :
    memory_get_word(c4, stack_pointer)))))

\* push moving StackPointer first and writing the word where it then points
push_predecrement(c, value) ==
    Then(get_register(c, StackPointer), LAMBDA c1 :
    Then(sub_u16(c1, c1.val, 2), LAMBDA c2 :
    LET stack_pointer == c2.val IN
    Then(set_register(c2, StackPointer, stack_pointer), LAMBDA c3 :
    Then(memory_set_word(c3, stack_pointer, value), LAMBDA c4 :
    add_frame_size(c4, 2)))))

\* push without `self.stack_frame_size += 2`
push_uncounted(c, value) ==
    Then(get_register(c, StackPointer), LAMBDA c1 :
    LET stack_pointer == c1.val IN
    Then(memory_set_word(c1, stack_pointer, value), LAMBDA c2 :
    Then(sub_u16(c2, stack_pointer, 2), LAMBDA c3 :
    set_register(c3, StackPointer, c3.val))))

\* Cpu::push
push(c, value) ==
    Then(get_register(c, StackPointer), LAMBDA c1 :
    LET stack_pointer == c1.val IN
    Then(memory_set_word(c1, stack_pointer, value), LAMBDA c2 :
    Then(sub_u16(c2, stack_pointer, 2), LAMBDA c3 :
    Then(set_register(c3, StackPointer, c3.val), LAMBDA c4 :
    add_frame_size(c4, 2)))))

\* Cpu::pop
pop(c) ==
    Then(get_register(c, StackPointer), LAMBDA c1 :
    Then(add_u16(c1, c1.val, 2), LAMBDA c2 :
    LET next_stack_pointer == c2.val IN
    Then(set_register(c2, StackPointer, next_stack_pointer), LAMBDA c3 :
    Then(sub_frame_size(c3, 2), LAMBDA c4 :
    memory_get_word(c4, next_stack_pointer)))))

\* self.push(self.get_register(name))
push_register(c, name) ==
    Then(get_register(c, name), LAMBDA c1 :
    push(c1, c1.val))

\* push_state saving the frame size without the 2 for its own push
push_state_unbiased(c) ==
    Then(push_register(c, Register1), LAMBDA c1 :
    Then(push_register(c1, Register2), LAMBDA c2 :
    Then(push_register(c2, Register3), LAMBDA c3 :
    Then(push_register(c3, Register4), LAMBDA c4 :
    Then(push_register(c4, Register5), LAMBDA c5 :
    Then(push_register(c5, Register6), LAMBDA c6 :
    Then(push_register(c6, Register7), LAMBDA c7 :
    Then(push_register(c7, Register8), LAMBDA c8 :
    Then(push_register(c8, InstructionPointer), LAMBDA c9 :
    Then(push(c9, c9.stack_frame_size % U16), LAMBDA c11 :
    Then(get_register(c11, StackPointer), LAMBDA c12 :
    Then(set_register(c12, FramePointer, c12.val), LAMBDA c13 :
    [c13 EXCEPT !.stack_frame_size = 0]))))))))))))

\* Cpu::push_state
push_state(c) ==
    Then(push_register(c, Register1), LAMBDA c1 :
    Then(push_register(c1, Register2), LAMBDA c2 :
    Then(push_register(c2, Register3), LAMBDA c3 :
    Then(push_register(c3, Register4), LAMBDA c4 :
    Then(push_register(c4, Register5), LAMBDA c5 :
    Then(push_register(c5, Register6), LAMBDA c6 :
    Then(push_register(c6, Register7), LAMBDA c7 :
    Then(push_register(c7, Register8), LAMBDA c8 :
    Then(push_register(c8, InstructionPointer), LAMBDA c9 :
    \* let stack_size_to_save = self.stack_frame_size + 2
    Then(add_frame_size(c9, 2), LAMBDA c10 :
    LET stack_size_to_save == c10.stack_frame_size IN
    Then(push(c9, stack_size_to_save % U16), LAMBDA c11 :
    Then(get_register(c11, StackPointer), LAMBDA c12 :
    Then(set_register(c12, FramePointer, c12.val), LAMBDA c13 :
    [c13 EXCEPT !.stack_frame_size = 0])))))))))))))

\* pop_register without the set_register: the popped word is dropped
pop_register_dropped(c, name) == pop(c)

\* let register_value = self.pop(); self.set_register(name, register_value)
pop_register(c, name) ==
    Then(pop(c), LAMBDA c1 :
    LET register_value == c1.val IN
    set_register(c1, name, register_value))

\* for _ in 0..n_args { self.pop(); }
\* n_args pops one after the other, evaluated as the first half of them
\* followed by the rest; a panic ends the loop
RECURSIVE pop_args(_, _)
pop_args(c, n_args) ==
    IF n_args = 0 \/ c.panicked THEN c
    ELSE IF n_args = 1 THEN pop(c)
    ELSE Then(pop_args(c, n_args \div 2), LAMBDA c1 :
         pop_args(c1, n_args - n_args \div 2))

\* pop_state without the pops of the argument count and of the arguments
pop_state_keeps_args(c) ==
    Then(get_register(c, FramePointer), LAMBDA c1 :
    LET stack_pointer_address == c1.val IN
    Then(set_register(c1, StackPointer, stack_pointer_address), LAMBDA c2 :
    Then(pop([c2 EXCEPT !.stack_frame_size = 2]), LAMBDA c4 :
    LET frame_size == c4.val IN
    Then(pop_register([c4 EXCEPT !.stack_frame_size = frame_size],
                      InstructionPointer), LAMBDA c6 :
    Then(pop_register(c6, Register8), LAMBDA c7 :
    Then(pop_register(c7, Register7), LAMBDA c8 :
    Then(pop_register(c8, Register6), LAMBDA c9 :
    Then(pop_register(c9, Register5), LAMBDA c10 :
    Then(pop_register(c10, Register4), LAMBDA c11 :
    Then(pop_register(c11, Register3), LAMBDA c12 :
    Then(pop_register(c12, Register2), LAMBDA c13 :
    Then(pop_register(c13, Register1), LAMBDA c14 :
    Then(add_u16(c14, stack_pointer_address, frame_size), LAMBDA c17 :
    LET frame_pointer_address == c17.val IN
    set_register(c17, FramePointer, frame_pointer_address))))))))))))))

\* Cpu::pop_state
pop_state(c) ==
    Then(get_register(c, FramePointer), LAMBDA c1 :
    LET stack_pointer_address == c1.val IN
    Then(set_register(c1, StackPointer, stack_pointer_address), LAMBDA c2 :
    Then(pop([c2 EXCEPT !.stack_frame_size = 2]), LAMBDA c4 :
    LET frame_size == c4.val IN
    Then(pop_register([c4 EXCEPT !.stack_frame_size = frame_size],
                      InstructionPointer), LAMBDA c6 :
    Then(pop_register(c6, Register8), LAMBDA c7 :
    Then(pop_register(c7, Register7), LAMBDA c8 :
    Then(pop_register(c8, Register6), LAMBDA c9 :
    Then(pop_register(c9, Register5), LAMBDA c10 :
    Then(pop_register(c10, Register4), LAMBDA c11 :
    Then(pop_register(c11, Register3), LAMBDA c12 :
    Then(pop_register(c12, Register2), LAMBDA c13 :
    Then(pop_register(c13, Register1), LAMBDA c14 :
    Then(pop(c14), LAMBDA c15 :
    LET n_args == c15.val IN
    Then(pop_args(c15, n_args), LAMBDA c16 :
    Then(add_u16(c16, stack_pointer_address, frame_size), LAMBDA c17 :
    LET frame_pointer_address == c17.val IN
    set_register(c17, FramePointer, frame_pointer_address))))))))))))))))

\* MovLitReg writing the register file at the operand byte itself, as Pop
\* does, instead of at twice the index
exec_MovLitReg_unscaled(c) ==
    Then(fetch16(c), LAMBDA c1 :
    LET value == c1.val IN
    Then(fetch(c1), LAMBDA c2 :
    LET reg == c2.val IN
    set_register_at(c2, reg, value)))

\* Cpu::execute, Instruction::MovLitReg
exec_MovLitReg(c) ==
    Then(fetch16(c), LAMBDA c1 :
    LET value == c1.val IN
    Then(fetch(c1), LAMBDA c2 :
    LET reg == c2.val IN
    set_register(c2, Register_from(reg), value)))

\* MovRegReg as a move that empties the source register
exec_MovRegReg_moved(c) ==
    Then(fetch(c), LAMBDA c1 :
    LET register_from == c1.val IN
    Then(fetch(c1), LAMBDA c2 :
    LET register_to == c2.val IN
    Then(get_register(c2, Register_from(register_from)), LAMBDA c3 :
    LET value == c3.val IN
    Then(set_register(c3, Register_from(register_from), 0), LAMBDA c4 :
    set_register(c4, Register_from(register_to), value)))))

\* Cpu::execute, Instruction::MovRegReg
exec_MovRegReg(c) ==
    Then(fetch(c), LAMBDA c1 :
    LET register_from == c1.val IN
    Then(fetch(c1), LAMBDA c2 :
    LET register_to == c2.val IN
    Then(get_register(c2, Register_from(register_from)), LAMBDA c3 :
    LET value == c3.val IN
    set_register(c3, Register_from(register_to), value))))

\* Cpu::execute, Instruction::MovMemReg
exec_MovMemReg(c) ==
    Then(fetch16(c), LAMBDA c1 :
    LET address == c1.val IN
    Then(fetch(c1), LAMBDA c2 :
    LET register_to == c2.val IN
    Then(memory_get_word(c2, address), LAMBDA c3 :
    LET value == c3.val IN
    set_register(c3, Register_from(register_to), value))))

\* Cpu::execute, Instruction::MovRegMem
exec_MovRegMem(c) ==
    Then(fetch(c), LAMBDA c1 :
    LET register_from == c1.val IN
    Then(fetch16(c1), LAMBDA c2 :
    LET address == c2.val IN
    Then(get_register(c2, Register_from(register_from)), LAMBDA c3 :
    LET value == c3.val IN
    memory_set_word(c3, address, value))))

\* AddRegReg reading the register file at the operand bytes themselves, as
\* PushReg does, instead of at twice the operand bytes
exec_AddRegReg_unscaled(c) ==
    Then(fetch(c), LAMBDA c1 :
    LET register1 == c1.val IN
    Then(fetch(c1), LAMBDA c2 :
    LET register2 == c2.val IN
    Then(get_register_at(c2, register1), LAMBDA c3 :
    LET value1 == c3.val IN
    Then(get_register_at(c3, register2), LAMBDA c4 :
    LET value2 == c4.val IN
    Then(add_u16(c4, value1, value2), LAMBDA c5 :
    set_register(c5, Accumulator, c5.val))))))

\* Cpu::execute, Instruction::AddRegReg
exec_AddRegReg(c) ==
    Then(fetch(c), LAMBDA c1 :
    LET register1 == c1.val IN
    Then(fetch(c1), LAMBDA c2 :
    LET register2 == c2.val IN
    Then(get_register_at(c2, register1 * 2), LAMBDA c3 :
    LET value1 == c3.val IN
    Then(get_register_at(c3, register2 * 2), LAMBDA c4 :
    LET value2 == c4.val IN
    Then(add_u16(c4, value1, value2), LAMBDA c5 :
    set_register(c5, Accumulator, c5.val))))))

\* JmpNotEq with the comparison the wrong way round: a jump when equal
exec_JmpNotEq_inverted(c) ==
    Then(fetch16(c), LAMBDA c1 :
    LET value == c1.val IN
    Then(fetch16(c1), LAMBDA c2 :
    LET address == c2.val IN
    Then(get_register(c2, Accumulator), LAMBDA c3 :
    LET acc_value == c3.val IN
    IF value = acc_value
    THEN set_register(c3, InstructionPointer, address)
    ELSE c3)))

\* Cpu::execute, Instruction::JmpNotEq
exec_JmpNotEq(c) ==
    Then(fetch16(c), LAMBDA c1 :
    LET value == c1.val IN
    Then(fetch16(c1), LAMBDA c2 :
    LET address == c2.val IN
    Then(get_register(c2, Accumulator), LAMBDA c3 :
    LET acc_value == c3.val IN
    IF value # acc_value
    THEN set_register(c3, InstructionPointer, address)
    ELSE c3)))

\* Cpu::execute, Instruction::PushLit
exec_PushLit(c) ==
    Then(fetch16(c), LAMBDA c1 :
    LET value == c1.val IN
    push(c1, value))

\* Cpu::execute, Instruction::PushReg
exec_PushReg(c) ==
    Then(fetch_register_index(c), LAMBDA c1 :
    LET index == c1.val IN
    Then(get_register_at(c1, index), LAMBDA c2 :
    LET value == c2.val IN
    push(c2, value)))

\* Cpu::execute, Instruction::Pop
exec_Pop(c) ==
    Then(fetch_register_index(c), LAMBDA c1 :
    LET index == c1.val IN
    Then(pop(c1), LAMBDA c2 :
    LET value == c2.val IN
    set_register_at(c2, index, value)))

\* Cpu::execute, Instruction::CalLit
exec_CalLit(c) ==
    Then(fetch16(c), LAMBDA c1 :
    LET address == c1.val IN
    Then(push_state(c1), LAMBDA c2 :
    set_register(c2, InstructionPointer, address)))

\* Cpu::execute, Instruction::CalReg
exec_CalReg(c) ==
    Then(fetch_register_index(c), LAMBDA c1 :
    LET register_index == c1.val IN
    Then(get_register_at(c1, register_index), LAMBDA c2 :
    LET address == c2.val IN
    Then(push_state(c2), LAMBDA c3 :
    set_register(c3, InstructionPointer, address))))

\* Cpu::execute, Instruction::Ret
exec_Ret(c) == pop_state(c)

\* Cpu::execute
execute(c, i) ==
    CASE i = "MovLitReg" -> exec_MovLitReg(c)
      [] i = "MovRegReg" -> exec_MovRegReg(c)
      [] i = "MovMemReg" -> exec_MovMemReg(c)
      [] i = "MovRegMem" -> exec_MovRegMem(c)
      [] i = "AddRegReg" -> exec_AddRegReg(c)
      [] i = "JmpNotEq" -> exec_JmpNotEq(c)
      [] i = "PushLit" -> exec_PushLit(c)
      [] i = "PushReg" -> exec_PushReg(c)
      [] i = "Pop" -> exec_Pop(c)
      [] i = "CalLit" -> exec_CalLit(c)
      [] i = "CalReg" -> exec_CalReg(c)
      [] i = "Ret" -> exec_Ret(c)
      [] OTHER -> c

\* Cpu::new
Cpu_new_last(mem) ==
    LET bottom_of_stack == byte_length(mem) - 1
        stack_pointer_pointer == StackPointer * 2
        frame_pointer_pointer == FramePointer * 2
        r0 == Memory_new(Len(register_names) * 2)
        r1 == set_word(r0, stack_pointer_pointer, bottom_of_stack % U16).mem
        r2 == set_word(r1, frame_pointer_pointer, bottom_of_stack % U16).mem
    IN  [memory |-> mem, register |-> r2, stack_frame_size |-> 0,
         panicked |-> FALSE, fault |-> "none", val |-> 0]

Cpu_new(mem) ==
    LET bottom_of_stack == byte_length(mem) - 1 - 1
        stack_pointer_pointer == StackPointer * 2
        frame_pointer_pointer == FramePointer * 2
        r0 == Memory_new(Len(register_names) * 2)
        r1 == set_word(r0, stack_pointer_pointer, bottom_of_stack % U16).mem
        r2 == set_word(r1, frame_pointer_pointer, bottom_of_stack % U16).mem
    IN  [memory |-> mem, register |-> r2, stack_frame_size |-> 0,
         panicked |-> FALSE, fault |-> "none", val |-> 0]

\* Cpu::peek_register
peek_register(c, name) == get_word(c.register, register_map(name)).val

\* Cpu::peek
peek(c, address) == get_word(c.memory, address).val

----------------------------------------------------------------------------
(* Program images: the bytes the tests and main.rs write with set_byte. *)

Asm_MovLitReg(value, r) == <<Opcode("MovLitReg"), Hi(value), Lo(value), r>>
Asm_MovRegReg(r_from, r_to) == <<Opcode("MovRegReg"), r_from, r_to>>
Asm_MovMemReg(address, r) == <<Opcode("MovMemReg"), Hi(address), Lo(address), r>>
Asm_MovRegMem(r, address) == <<Opcode("MovRegMem"), r, Hi(address), Lo(address)>>
Asm_AddRegReg(r1, r2) == <<Opcode("AddRegReg"), r1, r2>>
Asm_JmpNotEq(value, address) ==
    <<Opcode("JmpNotEq"), Hi(value), Lo(value), Hi(address), Lo(address)>>
Asm_PushLit(value) == <<Opcode("PushLit"), Hi(value), Lo(value)>>
Asm_PushReg(r) == <<Opcode("PushReg"), r>>
Asm_Pop(r) == <<Opcode("Pop"), r>>
Asm_CalLit(address) == <<Opcode("CalLit"), Hi(address), Lo(address)>>
Asm_CalReg(r) == <<Opcode("CalReg"), r>>
Asm_Ret == <<Opcode("Ret")>>

\* the concatenation of a sequence of byte sequences
RECURSIVE Flatten(_)
Flatten(ss) == IF ss = <<>> THEN <<>> ELSE Head(ss) \o Flatten(Tail(ss))

\* memory.set_byte(i, b); i += 1; for each byte b of bytes, starting with
\* i = at, for bytes that fit in m: the result of all the set_byte at once
Load(m, at, bytes) ==
    LET written == at..(at + Len(bytes) - 1)
        D == (DOMAIN m.inner \ written) \cup {i \in written : bytes[i - at + 1] # 0}
    IN  [m EXCEPT !.inner = [i \in D |-> IF i \in written THEN bytes[i - at + 1]
                                         ELSE m.inner[i]]]

\* Memory::new(256 * 256), the main memory of main.rs and of the larger tests
FullMem == 65536

\* the sizes of main memory the programs are run in
MemSizes == {SmallMem, FullMem}

----------------------------------------------------------------------------
(* Programs that call subroutines, after tests::pops_back_cpu_state_after_return:
   the main routine at 0 fills Register1..Register8 with sentinels and calls
   the subroutine of level 1 `calls` times in a row; the subroutine of level L
   overwrites Register1 and Register8, leaves `left` words on its stack, calls
   the subroutine of level L+1, if there is one, `inner` times in a row, and
   returns.  Before each call the caller pushes n_args argument words and
   then n_args. *)

\* the registers Register1..Register8 in the order push_state saves them
Saved == <<Register1, Register2, Register3, Register4,
           Register5, Register6, Register7, Register8>>

Sentinel(j) == 4369 * j

SubAddress(level) == SubSpacing * level

\* push the arguments and their count, then call `target`; CalReg takes the
\* target from the two register bytes at offset register_map(Accumulator)
CallSeq(kind, n_args, target) ==
    Flatten([j \in 1..n_args |-> Asm_PushLit(40960 + j)])
    \o Asm_PushLit(n_args)
    \o (IF kind = "CalLit"
        THEN Asm_CalLit(target)
        ELSE Asm_MovLitReg(target, Accumulator) \o Asm_CalReg(register_map(Accumulator)))

MainBody(kind, n_args, calls) ==
    Flatten([j \in 1..8 |-> Asm_MovLitReg(Sentinel(j), Saved[j])])
    \o Flatten([j \in 1..calls |-> CallSeq(kind, n_args, SubAddress(1))])
    \o Asm_PushLit(17476)

SubBody(level, kind, n_args, depth, inner, left) ==
    Asm_MovLitReg(1800 + level, Register1)
    \o Asm_MovLitReg(2314 + level, Register8)
    \o Flatten([j \in 1..left |-> Asm_PushLit(256 * level + j)])
    \o (IF level < depth
        THEN Flatten([j \in 1..inner |-> CallSeq(kind, n_args, SubAddress(level + 1))])
        ELSE <<>>)
    \o Asm_Ret

RECURSIVE LoadSubs(_, _, _, _, _, _, _)
LoadSubs(m, level, kind, n_args, depth, inner, left) ==
    IF level > depth THEN m
    ELSE LoadSubs(Load(m, SubAddress(level), SubBody(level, kind, n_args, depth, inner, left)),
                  level + 1, kind, n_args, depth, inner, left)

\* the number of steps a routine takes when every call returns to its caller
CallSeqSteps(kind, n_args) == n_args + 1 + (IF kind = "CalLit" THEN 1 ELSE 2)

RECURSIVE SubSteps(_, _, _, _, _, _)
SubSteps(level, kind, n_args, depth, inner, left) ==
    2 + left + 1
    + (IF level < depth
       THEN inner * (CallSeqSteps(kind, n_args)
                     + SubSteps(level + 1, kind, n_args, depth, inner, left))
       ELSE 0)

MainSteps(kind, n_args, depth, calls, inner, left) ==
    8 + 1 + calls * (CallSeqSteps(kind, n_args)
                     + SubSteps(1, kind, n_args, depth, inner, left))

Min(a, b) == IF a < b THEN a ELSE b

\* a program: the image of main memory and the argument of step_n
Program(mem, count) == [image |-> mem, n |-> Min(count, MaxSteps)]

CallProgram(size, kind, n_args, depth, calls, inner, left) ==
    Program(LoadSubs(Load(Memory_new(size), 0, MainBody(kind, n_args, calls)),
                     1, kind, n_args, depth, inner, left),
            MainSteps(kind, n_args, depth, calls, inner, left))

\* nested calls, one call per routine
NestedCalls ==
    { CallProgram(sz, k, na, d, 1, 1, lf) :
        sz \in MemSizes, k \in {"CalLit", "CalReg"}, na \in 0..MaxArgs,
        d \in 1..MaxDepth, lf \in 0..MaxLeft }

\* several calls in a row from the main routine
SequentialCalls ==
    { CallProgram(sz, k, na, 1, cs, 1, lf) :
        sz \in MemSizes, k \in {"CalLit", "CalReg"}, na \in 0..MaxArgs,
        cs \in 2..MaxCalls, lf \in 0..MaxLeft }

\* two calls in a row from a subroutine
InnerCalls ==
    { CallProgram(sz, "CalLit", 0, 2, 1, 2, 0) : sz \in MemSizes }

CallPrograms == NestedCalls \cup SequentialCalls \cup InnerCalls

----------------------------------------------------------------------------
(* Programs without calls, after the other tests of cpu.rs: a few instructions
   written from address 0 on, and the number of steps the test makes. *)

Straight(size, body, count) == Program(Load(Memory_new(size), 0, body), count)

\* tests::adds_two_numbers, with these values in Register1 and Register2
Addends == {0, 1, 4660, 43981, 32768, 65535}

AddPrograms ==
    { Straight(SmallMem,
               Asm_MovLitReg(a, Register1) \o Asm_MovLitReg(b, Register2)
               \o Asm_AddRegReg(Register1, Register2), 3) :
        a \in Addends, b \in Addends }

\* a JmpNotEq of each literal against each Accumulator value, to an address
\* before it, to the address right after it and to an address further on
JumpValues == {0, 1, 4660, 65535}

JumpPrograms ==
    { Straight(SmallMem, Asm_MovLitReg(a, Accumulator) \o Asm_JmpNotEq(v, to), 2) :
        a \in JumpValues, v \in JumpValues, to \in {0, 9, 64} }

\* tests::counts_to_three, counting to target
LoopBody(target) ==
    Asm_MovMemReg(256, Register1) \o Asm_MovLitReg(1, Register2)
    \o Asm_AddRegReg(Register1, Register2) \o Asm_MovRegMem(Accumulator, 256)
    \o Asm_JmpNotEq(target, 0)

LoopPrograms ==
    { Straight(sz, LoopBody(t), 5 * t) : sz \in MemSizes, t \in 1..MaxTarget }

\* tests::bumps_instruction_pointer_at_every_step, with each opcode byte that
\* is no instruction, after a MovLitReg and a PushLit
NoopPrograms ==
    { Straight(SmallMem,
               Asm_MovLitReg(4660, Register1) \o Asm_PushLit(22136) \o <<b, b>>, 4) :
        b \in {x \in 0..255 : Instruction_from(x) = "Noop"} }

\* a jump to the last byte of main memory, which holds an opcode byte that is
\* no instruction
LastBytePrograms ==
    { Program(Load(Load(Memory_new(sz), 0, Asm_JmpNotEq(1, sz - 1)), sz - 1, <<22>>), 3) :
        sz \in MemSizes }

\* each instruction that takes a register operand, with operand byte b
OperandForms(b) ==
    { Asm_MovLitReg(258, b), Asm_MovRegReg(b, Register2), Asm_MovRegReg(Register1, b),
      Asm_MovMemReg(256, b), Asm_MovRegMem(b, 256),
      Asm_AddRegReg(b, Register1), Asm_AddRegReg(Register1, b),
      Asm_PushReg(b), Asm_Pop(b), Asm_CalReg(b) }

OperandPrograms ==
    { Straight(SmallMem, Asm_MovLitReg(772, Register1) \o Asm_PushLit(0) \o form, 3) :
        form \in UNION { OperandForms(b) : b \in 0..255 } }

\* MovLitReg v, r followed by PushReg r; with r = InstructionPointer the
\* PushReg is at address v, where the MovLitReg continues
PushRegPrograms ==
    { Program(Load(Load(Memory_new(SmallMem), 0, Asm_MovLitReg(v, r)),
                   IF r = InstructionPointer THEN v ELSE 4, Asm_PushReg(r)), 2) :
        v \in {256, 321}, r \in 0..11 }

\* Register1..Register8 set to their sentinels, then PushLit v and Pop r
PopPrograms ==
    { Straight(SmallMem,
               Flatten([j \in 1..8 |-> Asm_MovLitReg(Sentinel(j), Saved[j])])
               \o Asm_PushLit(v) \o Asm_Pop(r), 10) :
        v \in {4660, 65535}, r \in 0..11 }

\* MovLitReg a, r followed by CalReg r; with r = InstructionPointer the
\* CalReg is at address a, where the MovLitReg continues
CalRegPrograms ==
    { Program(Load(Load(Memory_new(SmallMem), 0, Asm_MovLitReg(a, r)),
                   IF r = InstructionPointer THEN a ELSE 4, Asm_CalReg(r)), 2) :
        a \in {256, 321}, r \in 0..11 }

\* tests::pops_back_cpu_state_after_return and main.rs
subroutine_address == 768

ScenarioMain ==
    Asm_PushLit(4369) \o Asm_PushLit(8738) \o Asm_PushLit(13107)
    \o Asm_MovLitReg(4660, Register1) \o Asm_MovLitReg(22136, Register4)
    \o Asm_PushLit(0) \o Asm_CalLit(subroutine_address)
    \o Asm_PushLit(17476)

ScenarioSub ==
    Asm_PushLit(258) \o Asm_PushLit(772) \o Asm_PushLit(1286)
    \o Asm_MovLitReg(1800, Register1) \o Asm_MovLitReg(2314, Register8)
    \o Asm_Ret

\* cpu.step_n(12); cpu.step_n(5)
ScenarioPrograms ==
    { Program(Load(Load(Memory_new(FullMem), 0, ScenarioMain),
                   subroutine_address, ScenarioSub), 12 + 5) }

\* addresses at the end of a small main memory, past it, and at the end of
\* the 16-bit range
EdgeAddresses ==
    {SmallMem - 2, SmallMem - 1, SmallMem, SmallMem + 1, 65534, 65535}

\* a jump to each of these addresses, and a MovMemReg and a MovRegMem of each
AddressPrograms ==
    UNION { { Straight(SmallMem, Asm_JmpNotEq(1, a), 2),
              Straight(SmallMem, Asm_MovLitReg(43981, Register1)
                                 \o Asm_MovMemReg(a, Register2), 2),
              Straight(SmallMem, Asm_MovLitReg(43981, Register1)
                                 \o Asm_MovRegMem(Register1, a), 2) } :
            a \in EdgeAddresses }

\* values of StackPointer and FramePointer at both ends of the 16-bit range,
\* inside main memory and at and past its end
EdgePointers ==
    {0, 1, 256, SmallMem - 4, SmallMem - 3} \cup EdgeAddresses

\* each instruction that pushes or pops, with StackPointer (for Ret
\* FramePointer, which it copies to StackPointer) set to each of these
StackEdgePrograms ==
    UNION { { Straight(SmallMem, Asm_MovLitReg(p, StackPointer) \o Asm_PushLit(4660), 2),
              Straight(SmallMem, Asm_MovLitReg(p, StackPointer)
                                 \o Asm_PushReg(InstructionPointer), 2),
              Straight(SmallMem, Asm_MovLitReg(p, StackPointer) \o Asm_CalLit(64), 2),
              Straight(SmallMem, Asm_MovLitReg(p, StackPointer)
                                 \o Asm_CalReg(InstructionPointer), 2),
              Straight(SmallMem, Asm_MovLitReg(p, StackPointer) \o Asm_Pop(Register1), 2),
              Straight(SmallMem, Asm_MovLitReg(p, FramePointer) \o Asm_Ret, 2) } :
            p \in EdgePointers }

\* Cpu::execute: the number of operand bytes each instruction fetches
OperandBytes(i) ==
    CASE i \in {"JmpNotEq"} -> 4
      [] i \in {"MovLitReg", "MovRegMem", "MovMemReg"} -> 3
      [] i \in {"MovRegReg", "AddRegReg", "PushLit", "CalLit"} -> 2
      [] i \in {"PushReg", "Pop", "CalReg"} -> 1
      [] OTHER -> 0

\* the instructions that fetch operand bytes
WithOperands ==
    {"MovLitReg", "MovRegReg", "MovRegMem", "MovMemReg", "AddRegReg", "JmpNotEq",
     "PushLit", "PushReg", "Pop", "CalLit", "CalReg"}

\* a jump to each instruction with operands, placed so that its last k operand
\* bytes are past the end of a small main memory; the others are 1
TailPrograms ==
    UNION { { Program(Load(Load(Memory_new(SmallMem), 0,
                                Asm_JmpNotEq(1, SmallMem - 1 - OperandBytes(i) + k)),
                           SmallMem - 1 - OperandBytes(i) + k,
                           <<Opcode(i)>> \o [j \in 1..(OperandBytes(i) - k) |-> 1]), 2) :
                k \in 1..OperandBytes(i) } :
            i \in WithOperands }

\* a PushLit whose operand is the last two bytes of the 64 KiB memory
LastWordPrograms ==
    { Program(Load(Load(Memory_new(FullMem), 0, Asm_JmpNotEq(1, FullMem - 3)),
                   FullMem - 3, Asm_PushLit(4660)), 2) }

\* a Cpu over each small memory from the two bytes Cpu::new needs: every byte
\* of the image holds its address plus one, which is no opcode
TinyImage(size) == Load(Memory_new(size), 0, [i \in 1..size |-> i])

TinyPrograms == { Program(TinyImage(sz), 2) : sz \in 2..TinyMem }

\* tests::test_move_lit_to_reg, test_move_reg_to_mem and test_move_mem_to_reg
\* in a row: a literal into register r, r to the address a, a into register
\* r2, for these literals and addresses
MoveValues == {4660, 255}

MoveAddresses == {256, SmallMem - 2}

RoundTripPrograms ==
    { Straight(SmallMem,
               Asm_MovLitReg(v, r) \o Asm_MovRegMem(r, a) \o Asm_MovMemReg(a, r2), 3) :
        v \in MoveValues, a \in MoveAddresses, r \in 1..11, r2 \in 1..11 }

Programs ==
    CallPrograms \cup AddPrograms \cup JumpPrograms \cup LoopPrograms
    \cup NoopPrograms \cup LastBytePrograms \cup OperandPrograms \cup PushRegPrograms
    \cup PopPrograms \cup CalRegPrograms \cup ScenarioPrograms
    \cup AddressPrograms \cup StackEdgePrograms \cup TailPrograms
    \cup LastWordPrograms \cup TinyPrograms \cup RoundTripPrograms

----------------------------------------------------------------------------
(* The machine. *)

\* the Cpu the variables hold
Cur ==
    [memory |-> memory, register |-> register, stack_frame_size |-> stack_frame_size,
     panicked |-> panicked, fault |-> fault, val |-> 0]

\* what an observer of a Cpu sees of a routine's state at a call or a Ret
\* (history only): its registers, the address after the instruction and its
\* operand bytes, the word on top of the stack and the number of Ret so far
View(c, operands) ==
    [regs |-> [j \in 1..8 |-> peek_register(c, Saved[j])],
     ip |-> peek_register(c, InstructionPointer),
     ret |-> (peek_register(c, InstructionPointer) + 1 + operands) % U16,
     sp |-> peek_register(c, StackPointer),
     fp |-> peek_register(c, FramePointer),
     frame_size |-> c.stack_frame_size,
     n_args |-> peek(c, peek_register(c, StackPointer) + 2),
     rets |-> returned.count]

NoView ==
    [regs |-> [j \in 1..8 |-> 0], ip |-> 0, ret |-> 0, sp |-> 0, fp |-> 0,
     frame_size |-> 0, n_args |-> 0, rets |-> 0]

\* the number of operand bytes of the two call instructions
CallOperands(i) == IF i = "CalLit" THEN 2 ELSE 1

\* no method has been called on the Cpu c yet (history only)
NoCall(c) ==
    [offset |-> 0, value |-> 0, val |-> 0,
     prior_op |-> "Reset", prior_offset |-> 0, prior_value |-> 0, prior |-> c]

Init ==
    /\ \E program \in Programs :
          LET c == Cpu_new(program.image)
          IN  /\ memory = c.memory
              /\ register = c.register
              /\ stack_frame_size = c.stack_frame_size
              /\ panicked = c.panicked
              /\ fault = c.fault
              /\ before = c
              /\ call = NoCall(c)
              /\ n = program.n
    /\ overflow_checks \in BOOLEAN
    /\ instruction = "Reset"
    /\ steps = 0
    /\ frames = <<>>
    /\ returned = [matched |-> FALSE, caller |-> NoView, callee |-> NoView,
                   count |-> 0, nested |-> TRUE]

\* Cpu::step, first half: let instruction = self.fetch()
Fetched == fetch(Cur)

Commit(c, i) ==
    /\ memory' = c.memory
    /\ register' = c.register
    /\ stack_frame_size' = c.stack_frame_size
    /\ panicked' = c.panicked
    /\ fault' = c.fault
    /\ before' = Cur
    /\ instruction' = i
    /\ steps' = steps + 1
    /\ UNCHANGED <<overflow_checks, n, call>>

\* Cpu::step_n: the loop has iterations left and no panic has ended it
Running == ~panicked /\ steps < n

\* Cpu::step when the opcode decodes to i
Step(i) ==
    /\ ~Fetched.panicked
    /\ Instruction_from(Fetched.val) = i
    /\ Commit(execute(Fetched, i), i)
    /\ frames' =
          IF i \in {"CalLit", "CalReg"}
          THEN Append(frames, View(Cur, CallOperands(i)))
          ELSE IF i = "Ret" /\ frames # <<>>
          THEN SubSeq(frames, 1, Len(frames) - 1)
          ELSE frames
    /\ returned' =
          IF i = "Ret"
          THEN [matched |-> frames # <<>>,
                caller |-> IF frames # <<>> THEN frames[Len(frames)] ELSE NoView,
                callee |-> View(Cur, 0),
                count |-> returned.count + 1,
                nested |-> returned.nested]
          ELSE IF i \in {"CalLit", "CalReg"}
          THEN [returned EXCEPT !.nested = @ /\ returned.count = 0]
          ELSE returned

\* Cpu::step when self.fetch() panics: no instruction is decoded
FetchPanic ==
    /\ Running
    /\ Fetched.panicked
    /\ Commit(Fetched, "Fetch")
    /\ UNCHANGED <<frames, returned>>

MovLitReg == Running /\ Step("MovLitReg")
MovRegReg == Running /\ Step("MovRegReg")
MovRegMem == Running /\ Step("MovRegMem")
MovMemReg == Running /\ Step("MovMemReg")
AddRegReg == Running /\ Step("AddRegReg")
JmpNotEq == Running /\ Step("JmpNotEq")
PushLit == Running /\ Step("PushLit")
PushReg == Running /\ Step("PushReg")
Pop == Running /\ Step("Pop")
CalLit == Running /\ Step("CalLit")
CalReg == Running /\ Step("CalReg")
Ret == Running /\ Step("Ret")
Noop == Running /\ Step("Noop")

Next ==
    \/ MovLitReg \/ MovRegReg \/ MovRegMem \/ MovMemReg \/ AddRegReg \/ JmpNotEq
    \/ PushLit \/ PushReg \/ Pop \/ CalLit \/ CalReg \/ Ret \/ Noop
    \/ FetchPanic

Spec == Init /\ [][Next]_vars

----------------------------------------------------------------------------
(* The unit tests, which call methods of Cpu and of Memory directly. *)

\* the state after a test has called a method with these arguments, which
\* left the Cpu c
Called(c, method, offset, value) ==
    /\ memory' = c.memory
    /\ register' = c.register
    /\ stack_frame_size' = c.stack_frame_size
    /\ panicked' = c.panicked
    /\ fault' = c.fault
    /\ before' = Cur
    /\ instruction' = method
    /\ steps' = steps + 1
    /\ call' = [offset |-> offset, value |-> value, val |-> c.val,
                prior_op |-> instruction, prior_offset |-> call.offset,
                prior_value |-> call.value, prior |-> before]
    /\ UNCHANGED <<overflow_checks, n, frames, returned>>

\* tests::test_push_and_pop, from each state of the stack: the values of
\* StackPointer a program can set, next to each end of main memory and of the
\* 16-bit range
StackPointers(size) ==
    {0, 1, 2, 3, size - 4, size - 3, size - 2, size - 1, size, 65534, 65535}
    \cap 0..(U16 - 1)

\* the frame sizes of those states; the counter is below 0 only after it has
\* wrapped, which a build that checks overflow does not let it
FrameSizes(checks) == {0, 2, 4} \cup (IF checks THEN {} ELSE {-2})

\* the values the test pushes
PushValues == {0, 1, 255, 16963, 65280, 65535}

\* main memory with words of an earlier use at both ends
StackImage(size) ==
    Load(Load(Memory_new(size), 0, <<17, 34, 51, 68>>), size - 4, <<170, 187, 204, 221>>)

StackInit ==
    /\ overflow_checks \in BOOLEAN
    /\ \E size \in MemSizes :
       \E sp \in StackPointers(size) :
       \E frame_size \in FrameSizes(overflow_checks) :
          LET c0 == Cpu_new(StackImage(size))
              c == [set_register(c0, StackPointer, sp)
                        EXCEPT !.stack_frame_size = frame_size]
          IN  /\ memory = c.memory
              /\ register = c.register
              /\ stack_frame_size = c.stack_frame_size
              /\ panicked = c.panicked
              /\ fault = c.fault
              /\ before = c
              /\ call = NoCall(c)
    /\ n = MaxOps
    /\ instruction = "Reset"
    /\ steps = 0
    /\ frames = <<>>
    /\ returned = [matched |-> FALSE, caller |-> NoView, callee |-> NoView,
                   count |-> 0, nested |-> TRUE]

\* cpu.push(value)
TestPush ==
    /\ Running
    /\ \E value \in PushValues : Called(push(Cur, value), "push", 0, value)

\* let value = cpu.pop()
TestPop ==
    /\ Running
    /\ Called(pop(Cur), "pop", 0, 0)

StackNext == TestPush \/ TestPop

StackSpec == StackInit /\ [][StackNext]_vars

\* memory.rs, tests::test_word_size_operations and test_byte_size_operations,
\* on a Memory of each of these sizes; `memory` is the Memory under test and
\* the other fields of the Cpu are not used
MemorySizes == {0, 1, 2, 3, 10}

\* the offsets at both ends of the Memory and the first ones past its end
Offsets(size) == {0, 1, size - 2, size - 1, size} \cap Nat

ByteValues == {0, 66, 255}
WordValues == {0, 16963, 255}

\* a Memory with a different non-zero byte at each offset
MemoryImage(size) == Load(Memory_new(size), 0, [i \in 1..size |-> 16 + i])

MemoryInit ==
    /\ overflow_checks \in BOOLEAN
    /\ \E size \in MemorySizes :
          LET c == [memory |-> MemoryImage(size),
                    register |-> Memory_new(Len(register_names) * 2),
                    stack_frame_size |-> 0,
                    panicked |-> FALSE, fault |-> "none", val |-> 0]
          IN  /\ memory = c.memory
              /\ register = c.register
              /\ stack_frame_size = c.stack_frame_size
              /\ panicked = c.panicked
              /\ fault = c.fault
              /\ before = c
              /\ call = NoCall(c)
    /\ n = MaxOps
    /\ instruction = "Reset"
    /\ steps = 0
    /\ frames = <<>>
    /\ returned = [matched |-> FALSE, caller |-> NoView, callee |-> NoView,
                   count |-> 0, nested |-> TRUE]

\* mem.set_byte(offs, value)
SetByte ==
    /\ Running
    /\ \E offs \in Offsets(byte_length(memory)), value \in ByteValues :
          Called(memory_set_byte(Cur, offs, value), "set_byte", offs, value)

\* let value = mem.get_byte(offs)
GetByte ==
    /\ Running
    /\ \E offs \in Offsets(byte_length(memory)) :
          Called(memory_get_byte(Cur, offs), "get_byte", offs, 0)

\* mem.set_word(offs, value)
SetWord ==
    /\ Running
    /\ \E offs \in Offsets(byte_length(memory)), value \in WordValues :
          Called(memory_set_word(Cur, offs, value), "set_word", offs, value)

\* let value = mem.get_word(offs)
GetWord ==
    /\ Running
    /\ \E offs \in Offsets(byte_length(memory)) :
          Called(memory_get_word(Cur, offs), "get_word", offs, 0)

MemoryNext == SetByte \/ GetByte \/ SetWord \/ GetWord

MemorySpec == MemoryInit /\ [][MemoryNext]_vars

----------------------------------------------------------------------------
(* The claims about the call protocol. *)

\* the value of a register now and before the last step
Reg(name) == peek_register(Cur, name)
RegBefore(name) == peek_register(before, name)

\* the last step was a Ret that ran to its end and matches a call
Returned == instruction = "Ret" /\ ~panicked /\ returned.matched

\* C1: after the Ret that matches a call, each of Register1..Register8 holds
\* the value it had when the call executed, whatever the callee did before
\* its Ret.
C1_RegistersRestored ==
    Returned => \A j \in 1..8 : Reg(Saved[j]) = returned.caller.regs[j]

\* C2: after the Ret that matches a call made with n argument words and the
\* count n pushed, InstructionPointer is the address after the operand bytes
\* of the call and StackPointer is its value just before the call plus 2 for
\* the count plus 2 for each argument.
C2_ReturnAddressAndStack ==
    Returned =>
        /\ Reg(InstructionPointer) = returned.caller.ret
        /\ Reg(StackPointer) = returned.caller.sp + 2 + 2 * returned.caller.n_args

\* the last step was a Ret of a run of nested calls, each with a count of 0,
\* followed by Ret only
NestedReturn ==
    /\ instruction = "Ret"
    /\ returned.matched
    /\ returned.nested
    /\ \A k \in 1..Len(frames) : frames[k].n_args = 0

\* C3: when calls are nested to any depth, each with an argument count of 0,
\* and then unwound by Ret, each Ret returns to the latest caller that has not
\* been returned to, runs to its end and leaves InstructionPointer,
\* StackPointer (as before the count was pushed), FramePointer and
\* Register1..Register8 as that caller had them at its call.
C3_NestedCallsUnwind ==
    (NestedReturn /\ returned.caller.n_args = 0) =>
        /\ ~panicked
        /\ Reg(InstructionPointer) = returned.caller.ret
        /\ Reg(StackPointer) = returned.caller.sp + 2
        /\ Reg(FramePointer) = returned.caller.fp
        /\ \A j \in 1..8 : Reg(Saved[j]) = returned.caller.regs[j]

\* the Ret of the innermost call of the deepest nesting has run
C3_Witness ==
    /\ NestedReturn
    /\ ~panicked
    /\ returned.caller.n_args = 0
    /\ Len(frames) = MaxDepth - 1
    /\ returned.callee.regs # returned.caller.regs
    /\ returned.callee.fp # returned.caller.fp

\* C4: after every Ret, FramePointer has the value it had just before the
\* matching call executed, also for the second and later calls made from the
\* same frame.
C4_FramePointerRestored ==
    Returned => Reg(FramePointer) = returned.caller.fp

----------------------------------------------------------------------------
(* The claims about single instructions.  They read the instruction of the
   last step from the Cpu before that step. *)

\* the address of the opcode of the last step
pc == RegBefore(InstructionPointer)

\* the byte and the big-endian word at offset k of the last instruction
Byte(k) == At(before.memory, pc + k)
Word(k) == from_be_bytes(Byte(k), Byte(k + 1))

\* the value the last step reads from register r after fetching the operand
\* bytes up to offset k: InstructionPointer has moved past them by then
ValueRead(r, k) == IF r = InstructionPointer THEN (pc + k + 1) % U16 ELSE RegBefore(r)

\* C5: AddRegReg r1, r2 sets Accumulator to (value(r1) + value(r2)) mod 2^16
\* for all register values, also when the sum exceeds 0xFFFF, and leaves r1
\* and r2 as they were when neither is the Accumulator.
C5_AddRegRegWraps ==
    (instruction = "AddRegReg" /\ Byte(1) \in 0..11 /\ Byte(2) \in 0..11) =>
        /\ ~panicked
        /\ Reg(Accumulator) = (ValueRead(Byte(1), 2) + ValueRead(Byte(2), 2)) % U16
        /\ \A r \in {Byte(1), Byte(2)} \ {Accumulator, InstructionPointer} :
              Reg(r) = RegBefore(r)

\* C6: JmpNotEq imm16, addr16 sets InstructionPointer to addr16 when imm16
\* differs from the Accumulator and to the address of its opcode plus 5 when
\* they are equal, and changes no other register and no byte of main memory.
C6_JmpNotEqBranches ==
    (instruction = "JmpNotEq" /\ ~panicked) =>
        /\ Word(1) # RegBefore(Accumulator) => Reg(InstructionPointer) = Word(3)
        /\ Word(1) = RegBefore(Accumulator) => Reg(InstructionPointer) = (pc + 5) % U16
        /\ \A r \in 1..11 : Reg(r) = RegBefore(r)
        /\ memory = before.memory

\* a JmpNotEq whose literal equals a non-zero Accumulator has fallen through,
\* although its target is another address
C6_Witness ==
    /\ instruction = "JmpNotEq"
    /\ ~panicked
    /\ Word(1) = RegBefore(Accumulator)
    /\ Word(1) = 4660
    /\ Word(3) = 64
    /\ Reg(InstructionPointer) = pc + 5

\* main memory holds the counting loop with this target at address 0
CountingLoop(target) ==
    \A i \in 1..Len(LoopBody(target)) : At(memory, i - 1) = LoopBody(target)[i]

\* C7: the counting loop, started with the word at 0x0100 equal to 0, is left
\* after exactly 5 * T steps for every target T >= 1 in range: until then
\* InstructionPointer is inside the loop, and then it is past the JmpNotEq and
\* the Accumulator and the word at 0x0100 both equal T.
C7_CountingLoopEnds ==
    \A t \in 1..MaxTarget :
        CountingLoop(t) =>
            /\ ~panicked
            /\ steps < 5 * t => Reg(InstructionPointer) < Len(LoopBody(t))
            /\ steps = 5 * t =>
                  /\ Reg(InstructionPointer) = Len(LoopBody(t))
                  /\ Reg(Accumulator) = t
                  /\ peek(Cur, 256) = t

\* the loop with the largest target has been left
C7_Witness ==
    /\ CountingLoop(MaxTarget)
    /\ steps = 5 * MaxTarget
    /\ instruction = "JmpNotEq"
    /\ Reg(Accumulator) = MaxTarget
    /\ peek(Cur, 256) = MaxTarget

\* the twelve opcodes of the instruction set: 0x10-0x15, 0x17, 0x18, 0x1a,
\* 0x5e, 0x5f, 0x60
DefinedOpcodes == {16, 17, 18, 19, 20, 21, 23, 24, 26, 94, 95, 96}

\* the last step fetched an opcode byte
Decoded == instruction \notin {"Reset", "Fetch"}

\* C8: a step whose opcode byte is none of the twelve defined opcodes does not
\* abort, moves InstructionPointer on by 1 and changes no other register, no
\* byte of main memory and not the frame size.
C8_UndefinedOpcodeIsNoop ==
    (Decoded /\ Byte(0) \notin DefinedOpcodes) =>
        /\ instruction = "Noop"
        /\ ~panicked
        /\ Reg(InstructionPointer) = (pc + 1) % U16
        /\ \A r \in 1..11 : Reg(r) = RegBefore(r)
        /\ memory = before.memory
        /\ stack_frame_size = before.stack_frame_size

\* the gap opcode 0x16 has been stepped over with registers, stack and frame
\* size in use
C8_Witness ==
    /\ Decoded
    /\ Byte(0) = 22
    /\ pc > 0
    /\ Reg(InstructionPointer) = pc + 1
    /\ Reg(Register1) = 4660
    /\ stack_frame_size = 2

\* the instructions that take a register operand
RegisterOperandInstructions ==
    {"MovLitReg", "MovRegReg", "MovMemReg", "MovRegMem", "AddRegReg",
     "PushReg", "Pop", "CalReg"}

\* C9: whatever the operand byte of an instruction that takes a register
\* operand, the step does not abort on an index outside bytes 0..23 of the
\* register file: the register None, index 12, is never read or written.
C9_RegisterOperandsStayInFile ==
    instruction \in RegisterOperandInstructions => fault # "register"

\* C10: PushReg r, for r in 0..11, writes at the old StackPointer the value
\* of the register with index r, the one MovLitReg v, r sets to v.
C10_PushRegPushesRegister ==
    (instruction = "PushReg" /\ ~panicked /\ Byte(1) \in 0..11) =>
        peek(Cur, RegBefore(StackPointer)) = ValueRead(Byte(1), 1)

\* C11: Pop r, for r in 2..9 (Register1..Register8), stores the word it pops
\* in the register with index r and leaves every register other than that
\* one, InstructionPointer and StackPointer as it was.
C11_PopStoresInRegister ==
    (instruction = "Pop" /\ ~panicked /\ Byte(1) \in 2..9) =>
        /\ Reg(Byte(1)) = peek(before, RegBefore(StackPointer) + 2)
        /\ \A r \in 1..11 \ {Byte(1), StackPointer} : Reg(r) = RegBefore(r)

\* C12: CalReg r, for r in 0..11, sets InstructionPointer to the value the
\* register with index r, the one MovLitReg v, r sets to v, holds at the call.
C12_CalRegCallsRegister ==
    (instruction = "CalReg" /\ ~panicked /\ Byte(1) \in 0..11) =>
        Reg(InstructionPointer) = ValueRead(Byte(1), 1)

----------------------------------------------------------------------------
(* The claims about aborts. *)

\* the size of main memory
N == byte_length(before.memory)

\* every register but InstructionPointer is as before the last step
RegistersKept == \A r \in 1..11 : Reg(r) = RegBefore(r)

\* the address the pop of the last step reads, given the StackPointer it
\* starts from
PopAddress(stack_pointer) == (stack_pointer + 2) % U16

\* an operand byte of the instruction of the last step is at or past N
OperandPastEnd ==
    \E k \in 1..OperandBytes(instruction) : (pc + k) % U16 >= N

C20_OnlyBoundsAbort ==
    panicked => fault \in {"memory", "register"}

----------------------------------------------------------------------------
(* The claims about end-to-end scenario C. *)

\* main memory holds the program of scenario C
ScenarioC ==
    /\ \A i \in 1..Len(ScenarioMain) : At(memory, i - 1) = ScenarioMain[i]
    /\ \A i \in 1..Len(ScenarioSub) :
          At(memory, subroutine_address + i - 1) = ScenarioSub[i]

\* the Ret of scenario C is its 13th step
AfterScenarioRet == ScenarioC /\ steps = 13

\* C15 as stated: in scenario C, after the Ret, Register1 = 0x0708 and
\* Register8 = 0x090a, as the subroutine set them, and Register4 = 0x5678, as
\* set before the call.
C15_SubroutineRegistersVisible ==
    AfterScenarioRet =>
        /\ instruction = "Ret"
        /\ ~panicked
        /\ Reg(Register1) = 1800
        /\ Reg(Register8) = 2314
        /\ Reg(Register4) = 22136

\* C15 as amended: in scenario C the two registers set inside the subroutine
\* hold its values up to the Ret (Register1 = 0x0708 and Register8 = 0x090a
\* after 12 steps); the Ret gives Register1..Register8 the values they had at
\* the call: after it Register1 = 0x1234, Register8 = 0x0000 and
\* Register4 = 0x5678.
C15_CallerRegistersBack ==
    /\ (ScenarioC /\ steps = 12) =>
          /\ ~panicked
          /\ Reg(Register1) = 1800
          /\ Reg(Register8) = 2314
    /\ AfterScenarioRet =>
          /\ instruction = "Ret"
          /\ ~panicked
          /\ Reg(Register1) = 4660
          /\ Reg(Register8) = 0
          /\ Reg(Register4) = 22136
          /\ \A r \in {Register2, Register3, Register5, Register6, Register7} :
                Reg(r) = 0

\* the Ret of scenario C has run, from a state where the subroutine's values
\* were in Register1 and Register8
C15_Witness ==
    /\ AfterScenarioRet
    /\ instruction = "Ret"
    /\ RegBefore(Register1) = 1800
    /\ RegBefore(Register8) = 2314
    /\ Reg(Register1) = 4660

\* the live stack: the words from StackPointer + 2 up to the top of memory
LiveStack ==
    [k \in 1..((byte_length(memory) - Reg(StackPointer) - 2) \div 2) |->
        peek(Cur, Reg(StackPointer) + 2 * k)]

\* C16: in scenario C, after the Ret the live stack holds exactly the three
\* literals pushed before the call, 0x3333, 0x2222, 0x1111 from the lowest
\* address to the highest, and the PushLit 0x4444 after the return writes
\* right below 0x3333.
C16_StackAfterReturn ==
    /\ AfterScenarioRet =>
          /\ instruction = "Ret"
          /\ ~panicked
          /\ LiveStack = <<13107, 8738, 4369>>
    /\ (ScenarioC /\ steps = 14) =>
          /\ instruction = "PushLit"
          /\ ~panicked
          /\ LiveStack = <<17476, 13107, 8738, 4369>>

\* the PushLit 0x4444 has run after the Ret of scenario C, over the argument
\* count the caller had pushed
C16_Witness ==
    /\ ScenarioC
    /\ steps = 14
    /\ instruction = "PushLit"
    /\ peek(Cur, RegBefore(StackPointer)) = 17476
    /\ Reg(StackPointer) = FullMem - 10
    /\ peek(Cur, Reg(StackPointer)) = 4660

----------------------------------------------------------------------------
(* The claims about push and pop, checked on the calls of StackSpec. *)

\* offset is the offset of a word inside the Memory m
InRange(m, offset) == offset + 1 < m.len

\* the last call was a pop, right after a push
PopAfterPush == instruction = "pop" /\ call.prior_op = "push"

\* what C13 says of a push and of the pop right after it
PushEffect ==
    /\ ~panicked
    /\ At(memory, RegBefore(StackPointer)) = call.value \div 256
    /\ At(memory, RegBefore(StackPointer) + 1) = call.value % 256
    /\ Reg(StackPointer) = RegBefore(StackPointer) - 2
    /\ stack_frame_size = before.stack_frame_size + 2

PopEffect ==
    /\ ~panicked
    /\ call.val = call.prior_value
    /\ Reg(StackPointer) = peek_register(call.prior, StackPointer)
    /\ stack_frame_size = call.prior.stack_frame_size

\* C13 as stated: for every value v and every state with StackPointer >= 2,
\* push(v) writes v big-endian at the old StackPointer, decreases
\* StackPointer by 2 and increases the frame size by 2, and a pop right after
\* it returns v and leaves StackPointer and the frame size as they were
\* before the push.
C13_PushAtAnyStackPointer ==
    /\ (instruction = "push" /\ RegBefore(StackPointer) >= 2) => PushEffect
    /\ (PopAfterPush /\ peek_register(call.prior, StackPointer) >= 2) => PopEffect

\* the last call was a push at a StackPointer >= 2 whose word is inside main
\* memory
Pushed ==
    /\ instruction = "push"
    /\ RegBefore(StackPointer) >= 2
    /\ InRange(before.memory, RegBefore(StackPointer))

\* the last call was a pop, right after such a push
PoppedBack ==
    /\ PopAfterPush
    /\ peek_register(call.prior, StackPointer) >= 2
    /\ InRange(call.prior.memory, peek_register(call.prior, StackPointer))

\* C13 as amended: for every value v and every state with StackPointer >= 2
\* and StackPointer + 1 below the size of main memory, push(v) writes v
\* big-endian at the old StackPointer, decreases StackPointer by 2 and
\* increases the frame size by 2; a pop right after it returns v and leaves
\* StackPointer and the frame size as they were before the push.
C13_PushThenPop ==
    /\ Pushed => PushEffect
    /\ PoppedBack => PopEffect

\* the push and the pop of tests::test_push_and_pop have run on an empty
\* stack, over a word of an earlier use
C13_Witness ==
    /\ PoppedBack
    /\ call.val = 16963
    /\ peek_register(call.prior, StackPointer) = SmallMem - 2
    /\ peek(call.prior, SmallMem - 2) = 52445
    /\ call.prior.stack_frame_size = 0
    /\ Reg(StackPointer) = SmallMem - 2
    /\ stack_frame_size = 0

\* C14 as stated: after a push and the pop right after it, every byte of
\* main memory, the two at the old StackPointer included, is as it was before
\* the push.
C14_MemoryAsBeforePush ==
    PopAfterPush => memory = call.prior.memory

\* C14 as amended: after a push(v) and the pop right after it, the two bytes
\* at the old StackPointer hold v and every other byte of main memory is as
\* it was before the push.
C14_MemoryKeepsPushedWord ==
    PopAfterPush =>
        LET sp == peek_register(call.prior, StackPointer)
        IN  /\ memory.len = call.prior.memory.len
            /\ At(memory, sp) = call.prior_value \div 256
            /\ At(memory, sp + 1) = call.prior_value % 256
            /\ \A a \in (DOMAIN memory.inner \cup DOMAIN call.prior.memory.inner)
                          \ {sp, sp + 1} :
                  At(memory, a) = At(call.prior.memory, a)

\* a word pushed over a different word is still in memory after the pop
C14_Witness ==
    /\ PopAfterPush
    /\ ~panicked
    /\ call.prior_value = 16963
    /\ peek(call.prior, peek_register(call.prior, StackPointer)) = 52445
    /\ peek(Cur, Reg(StackPointer)) = 16963

----------------------------------------------------------------------------
(* The claims about Memory, checked on the calls of MemorySpec. *)

\* the last call was a get right after a set_word that did not fail
AfterSetWord(method) == instruction = method /\ call.prior_op = "set_word"

\* C17: for every offset a with a + 1 below the size and every 16-bit v,
\* set_word(a, v) does not fail, stores v div 256 at a and v mod 256 at a + 1
\* and leaves every other byte and the size as they were; right after it
\* get_word(a) = v, get_byte(a) = v div 256 and get_byte(a + 1) = v mod 256.
C17_WordsAreBigEndian ==
    /\ (instruction = "set_word" /\ InRange(before.memory, call.offset)) =>
          /\ ~panicked
          /\ byte_length(memory) = byte_length(before.memory)
          /\ At(memory, call.offset) = call.value \div 256
          /\ At(memory, call.offset + 1) = call.value % 256
          /\ \A b \in 0..(byte_length(memory) - 1) \ {call.offset, call.offset + 1} :
                At(memory, b) = At(before.memory, b)
    /\ (AfterSetWord("get_word") /\ call.offset = call.prior_offset) =>
          ~panicked /\ call.val = call.prior_value
    /\ (AfterSetWord("get_byte") /\ call.offset = call.prior_offset) =>
          ~panicked /\ call.val = call.prior_value \div 256
    /\ (AfterSetWord("get_byte") /\ call.offset = call.prior_offset + 1) =>
          ~panicked /\ call.val = call.prior_value % 256

\* tests::test_word_size_operations: the word 0x4243 written at offset 8 of
\* 10 has been read back
C17_Witness ==
    /\ AfterSetWord("get_word")
    /\ byte_length(memory) = 10
    /\ call.prior_offset = 8
    /\ call.offset = 8
    /\ call.prior_value = 16963
    /\ call.val = 16963
    /\ At(memory, 8) = 66
    /\ At(memory, 9) = 67
    /\ At(memory, 7) = 24

\* C18: get_byte and set_byte fail exactly when the offset is at or past
\* the size, get_word and set_word exactly when it is at or past the size
\* minus 1, and a set_byte or set_word that fails changes no byte.
C18_BoundsAreExact ==
    /\ instruction \in {"get_byte", "set_byte"} =>
          (panicked <=> call.offset >= byte_length(before.memory))
    /\ instruction \in {"get_word", "set_word"} =>
          (panicked <=> call.offset >= byte_length(before.memory) - 1)
    /\ (instruction \in {"set_byte", "set_word"} /\ panicked) =>
          memory = before.memory

\* a set_word at the last offset has failed and the byte there, which
\* differs from the high byte of the word, is as it was
C18_Witness ==
    /\ instruction = "set_word"
    /\ panicked
    /\ call.offset = byte_length(memory) - 1
    /\ At(memory, call.offset) # call.value \div 256
    /\ At(memory, call.offset) = At(before.memory, call.offset)
    /\ At(memory, call.offset) # 0

-----------------------------------------------------------------------------
(* The Cpu as constructed. *)

\* the Cpu is as Cpu::new left it
Constructed == instruction = "Reset" /\ steps = 0

\* C21: a Cpu constructed from a memory image of N bytes, 2 <= N <= 65536,
\* starts with InstructionPointer 0, StackPointer and FramePointer N - 2,
\* Accumulator and Register1..Register8 0 and frame size 0, and its main
\* memory is the image.
C21_InitialState ==
    Constructed =>
        LET size == byte_length(memory)
        IN  /\ size \in 2..65536
            /\ ~panicked
            /\ Reg(InstructionPointer) = 0
            /\ Reg(StackPointer) = size - 2
            /\ Reg(FramePointer) = size - 2
            /\ \A r \in Accumulator..Register8 : Reg(r) = 0
            /\ stack_frame_size = 0
            /\ register.len = 24
            /\ size <= TinyMem => memory = TinyImage(size)
            /\ size > TinyMem => size \in MemSizes /\ memory = before.memory

\* a Cpu constructed over the smallest memory
C21_Witness ==
    /\ Constructed
    /\ byte_length(memory) = 2
    /\ Reg(StackPointer) = 0

-----------------------------------------------------------------------------
(* The frame a call saves. *)

\* the last step was a call that ran to its end
CallDone == instruction \in {"CalLit", "CalReg"} /\ ~panicked

\* the word of main memory at the address `offset` above FramePointer
FrameWord(offset) == peek(Cur, (Reg(FramePointer) + offset) % U16)

\* C22: right after a CalLit or CalReg executed with frame size F and
\* StackPointer S, FramePointer = StackPointer = S - 20, the frame size is 0
\* and main memory holds F + 20 at FramePointer + 2, the return address at
\* FramePointer + 4 and the values Register8, Register7, ..., Register1 had
\* before the call at FramePointer + 6, + 8, ..., + 20.
C22_SavedFrameLayout ==
    CallDone =>
        /\ Reg(FramePointer) = Reg(StackPointer)
        /\ Reg(StackPointer) = (RegBefore(StackPointer) - 20) % U16
        /\ stack_frame_size = 0
        /\ FrameWord(2) = (before.stack_frame_size + 20) % U16
        /\ FrameWord(4) = (pc + 1 + CallOperands(instruction)) % U16
        /\ \A j \in 1..8 : FrameWord(6 + 2 * (8 - j)) = RegBefore(Saved[j])

\* a call made with a word on the caller's frame and eight distinct values in
\* Register1..Register8
C22_Witness ==
    /\ CallDone
    /\ before.stack_frame_size > 0
    /\ \A j \in 1..8 : RegBefore(Saved[j]) = Sentinel(j)
    /\ FrameWord(6) = Sentinel(8)
    /\ FrameWord(2) = before.stack_frame_size + 20

-----------------------------------------------------------------------------
(* Frame accounting. *)

\* C23: in a program that moves StackPointer and FramePointer only by
\* PushLit, PushReg, Pop, CalLit, CalReg and Ret, with the argument count of
\* each call pushed as declared (scenario C is one), at every instruction
\* boundary the frame size is FramePointer - StackPointer; and after the Ret
\* that matches a call with n arguments the frame size is the caller's frame
\* size before the call minus 2 * (n + 1).
C23_FrameAccounting ==
    /\ (ScenarioC /\ ~panicked) =>
            stack_frame_size = Reg(FramePointer) - Reg(StackPointer)
    /\ Returned =>
            stack_frame_size =
                returned.caller.frame_size - 2 * (returned.caller.n_args + 1)

-----------------------------------------------------------------------------
(* Instruction lengths. *)

\* the offsets of the operand bytes of instruction i that name a register
RegisterOperandOffsets(i) ==
    CASE i \in {"MovLitReg", "MovMemReg"} -> {3}
      [] i \in {"MovRegReg", "AddRegReg"} -> {1, 2}
      [] i \in {"MovRegMem", "PushReg", "Pop"} -> {1}
      [] OTHER -> {}

\* the instructions that go on to the next one: neither a call nor a return
Sequential ==
    {"MovLitReg", "MovRegReg", "MovMemReg", "MovRegMem", "AddRegReg", "JmpNotEq",
     "PushLit", "PushReg", "Pop", "Noop"}

\* the last step ran to its end, was no call, no return and no taken jump,
\* and each of its register operands is an index from 1 to 11, so that its
\* destination is not InstructionPointer
StraightStep ==
    /\ Decoded
    /\ ~panicked
    /\ instruction \in Sequential
    /\ \A k \in RegisterOperandOffsets(instruction) : Byte(k) \in 1..11
    /\ instruction = "JmpNotEq" => Word(1) = RegBefore(Accumulator)

\* C24: a step that is no taken jump, call or return and whose destination
\* register is not InstructionPointer moves InstructionPointer on by the
\* length of its instruction (MovLitReg 4, MovRegReg 3, MovMemReg 4,
\* MovRegMem 4, AddRegReg 3, JmpNotEq 5, PushLit 3, PushReg 2, Pop 2, no-op
\* 1), for every register operand index in 1..11.
C24_InstructionLengths ==
    StraightStep =>
        Reg(InstructionPointer) = (pc + 1 + OperandBytes(instruction)) % U16

-----------------------------------------------------------------------------
(* What the instructions that do not use the stack leave alone. *)

\* the instructions of C25 that write no main memory
RegisterOnly == {"MovLitReg", "MovRegReg", "MovMemReg", "AddRegReg", "JmpNotEq", "Noop"}

\* the registers the last step may write besides InstructionPointer: the one
\* its destination operand names, Accumulator for AddRegReg
Destinations ==
    CASE instruction \in {"MovLitReg", "MovMemReg"} -> {Register_from(Byte(3))}
      [] instruction = "MovRegReg" -> {Register_from(Byte(2))}
      [] instruction = "AddRegReg" -> {Accumulator}
      [] OTHER -> {}

\* the addresses at which main memory is not as before the last step
ChangedBytes ==
    {a \in DOMAIN memory.inner \cup DOMAIN before.memory.inner :
        At(memory, a) # At(before.memory, a)}

\* C25: MovLitReg, MovRegReg, MovMemReg, AddRegReg, JmpNotEq and the no-op
\* leave main memory and the frame size as they were and change at most
\* InstructionPointer and the destination register (Accumulator for
\* AddRegReg, none for JmpNotEq and the no-op); MovRegMem changes only
\* InstructionPointer and the two bytes of main memory at its address operand
\* and the address after it.
C25_NonStackFrameConditions ==
    /\ instruction \in RegisterOnly =>
            /\ memory = before.memory
            /\ stack_frame_size = before.stack_frame_size
            /\ register.len = before.register.len
            /\ \A r \in 1..11 : r \notin Destinations => Reg(r) = RegBefore(r)
    /\ instruction = "MovRegMem" =>
            /\ memory.len = before.memory.len
            /\ ChangedBytes \subseteq {Word(2), Word(2) + 1}
            /\ stack_frame_size = before.stack_frame_size
            /\ register.len = before.register.len
            /\ RegistersKept

\* a MovRegReg that copied a value into another register, which held another
\* value
C25_Witness ==
    /\ instruction = "MovRegReg"
    /\ ~panicked
    /\ Byte(1) \in 1..11 /\ Byte(2) \in 1..11 /\ Byte(1) # Byte(2)
    /\ RegBefore(Byte(1)) # 0
    /\ Reg(Byte(2)) = RegBefore(Byte(1))
    /\ RegBefore(Byte(2)) # RegBefore(Byte(1))

-----------------------------------------------------------------------------
(* The register operand of PushReg, Pop and CalReg. *)

\* the instructions that take their operand through fetch_register_index
IndexInstructions == {"PushReg", "Pop", "CalReg"}

\* the Cpu before the last step, with the operand byte b of its instruction
\* replaced by b mod 12
Reduced == [before EXCEPT !.memory = Store(@, pc + 1, Byte(1) % 12)]

\* the Cpu after the step that Reduced takes
AsReduced == execute(fetch(Reduced), instruction)

\* main memory m but for the byte at the address of the operand
ButOperand(m) == Store(m, pc + 1, 0)

\* C26: for every operand byte b in 0..255, PushReg, Pop and CalReg do what
\* they do with the operand byte b mod 12, and no access to the register
\* file is outside its 24 bytes.
C26_RegisterIndexIsReduced ==
    (instruction \in IndexInstructions /\ pc + 1 < N) =>
        /\ register = AsReduced.register
        /\ ButOperand(memory) = ButOperand(AsReduced.memory)
        /\ stack_frame_size = AsReduced.stack_frame_size
        /\ panicked = AsReduced.panicked
        /\ fault = AsReduced.fault
        /\ fault # "register"

\* PushReg with operand byte 16 pushed the word at bytes 4 and 5 of the
\* register file, as with operand byte 4
C26_Witness ==
    /\ instruction = "PushReg"
    /\ ~panicked
    /\ Byte(1) = 16
    /\ RegBefore(Register1) = 772
    /\ peek(Cur, RegBefore(StackPointer)) = 772

-----------------------------------------------------------------------------
(* Ret and the stack of the callee. *)

\* what C27 compares of two Cpus after a Ret
AfterRet(c) ==
    [ip |-> peek_register(c, InstructionPointer),
     sp |-> peek_register(c, StackPointer),
     fp |-> peek_register(c, FramePointer),
     regs |-> [j \in 1..8 |-> peek_register(c, Saved[j])],
     frame_size |-> c.stack_frame_size,
     panicked |-> c.panicked]

\* the Cpu c after its routine pushed k more words and left them on the stack
RECURSIVE LeftWords(_, _)
LeftWords(c, k) == IF k = 0 THEN c ELSE push(LeftWords(c, k - 1), Sentinel(k))

\* the last step was the Ret of a callee whose stack is below its frame
CalleeRet ==
    /\ instruction = "Ret"
    /\ returned.matched
    /\ RegBefore(StackPointer) <= RegBefore(FramePointer)

\* the callee of the last Ret had no word of its own on the stack
ZeroWords ==
    /\ before.stack_frame_size = 0
    /\ RegBefore(StackPointer) = RegBefore(FramePointer)

\* the last Ret ends as the Ret of the execution in which the callee left k
\* more words on its stack
SameAsWith(k) ==
    LET other == LeftWords(before, k)
    IN  ~other.panicked => AfterRet(execute(fetch(other), "Ret")) = AfterRet(Cur)

\* the Ret of a callee ends the same with 1..MaxExtra more words left
C27_SameWhateverLeft == CalleeRet => \A k \in 1..MaxExtra : SameAsWith(k)

\* the Ret of a callee that left no word does not abort
C27_ZeroWordsNoAbort == (CalleeRet /\ ZeroWords) => ~panicked

\* C27: two executions that differ only in the number of words the callee
\* pushed and left on its stack, none or some, end the Ret with the same
\* InstructionPointer, StackPointer, FramePointer, Register1..Register8 and
\* frame size, and the Ret of a callee that left none does not abort.
C27_RetIgnoresCalleeStack == C27_SameWhateverLeft /\ C27_ZeroWordsNoAbort

-----------------------------------------------------------------------------
(* Moves there and back. *)

\* main memory holds, from address 0, MovLitReg v, r; MovRegMem r, a;
\* MovMemReg a, r2 with r and r2 in 1..11 and the word at a inside main
\* memory and past these instructions
RoundTripC ==
    /\ At(memory, 0) = Opcode("MovLitReg")
    /\ At(memory, 4) = Opcode("MovRegMem")
    /\ At(memory, 8) = Opcode("MovMemReg")
    /\ At(memory, 3) \in 1..11
    /\ At(memory, 5) = At(memory, 3)
    /\ At(memory, 11) \in 1..11
    /\ At(memory, 9) = At(memory, 6) /\ At(memory, 10) = At(memory, 7)
    /\ from_be_bytes(At(memory, 6), At(memory, 7)) >= 12
    /\ from_be_bytes(At(memory, 6), At(memory, 7)) + 1 < byte_length(memory)

\* the literal, the address and the registers of the round trip
RoundTripValue == from_be_bytes(At(memory, 1), At(memory, 2))
RoundTripAddress == from_be_bytes(At(memory, 6), At(memory, 7))
RoundTripFrom == At(memory, 3)
RoundTripTo == At(memory, 11)

\* C28: for every value v, registers r and r2 in 1..11 and address a with
\* a + 1 < N outside the code, MovLitReg v, r sets r to v; MovRegMem r, a
\* after it stores v at a, high byte first, and leaves r as it is; MovMemReg
\* a, r2 after that sets r2 to v and leaves main memory as it is.
C28_MovesRoundTrip ==
    /\ (RoundTripC /\ steps >= 1) =>
            /\ ~panicked
            /\ steps = 1 => Reg(RoundTripFrom) = RoundTripValue
    /\ (RoundTripC /\ steps = 2) =>
            /\ instruction = "MovRegMem"
            /\ At(memory, RoundTripAddress) = Hi(RoundTripValue)
            /\ At(memory, RoundTripAddress + 1) = Lo(RoundTripValue)
            /\ Reg(RoundTripFrom) = RoundTripValue
    /\ (RoundTripC /\ steps = 3) =>
            /\ instruction = "MovMemReg"
            /\ Reg(RoundTripTo) = RoundTripValue
            /\ memory = before.memory
            /\ peek(Cur, RoundTripAddress) = RoundTripValue

\* the round trip of 0x00FF through StackPointer and the last word of main
\* memory into Accumulator
C28_Witness ==
    /\ RoundTripC
    /\ steps = 3
    /\ RoundTripValue = 255
    /\ RoundTripFrom = StackPointer
    /\ RoundTripTo = Accumulator
    /\ RoundTripAddress = byte_length(memory) - 2
    /\ Reg(Accumulator) = 255
    /\ Reg(StackPointer) = 255

====
